---- MODULE Spec2Model ----
(***************************************************************************)
(* Frame-extractor-studio: the processing orchestration core.              *)
(*                                                                         *)
(*   - the three adapter workers (image decoder, FFmpeg, WebCodecs) as     *)
(*     message-passing processes, with the archive split they perform;     *)
(*   - engine selection (processingMode.ts and the auto routing of         *)
(*     ProcessingController);                                              *)
(*   - the ProcessingController orchestrator: worker effect, fallback,     *)
(*     main-thread image decode, FFmpeg run, start and cancel.             *)
(*                                                                         *)
(* Three specifications share the variables:                               *)
(*   SpecWorker  one adapter worker driven through its message interface   *)
(*   SpecSelect  the selection functions applied to every input            *)
(*   Spec        the orchestrator together with its workers                *)
(***************************************************************************)
EXTENDS Integers, Sequences, FiniteSets, TLC

\* ------------------------------------------------------------------ bounds

\* Largest number of frames a source holds (decoder frame count, frame files
\* written by the transcoder, frames output by the video decoder).
MaxFrames == 2

\* Largest framesPerPart tried.
MaxPartSize == 2

\* Number of codecs the capability probe tries with isConfigSupported.
MaxCodecs == 2

\* Number of startExtraction calls followed.
MaxStarts == 1

\* Files supplied to the orchestrator one after the other.
MaxFiles == 2

\* Clicks on Extract followed in the worker-on-mount ExtractionEngine.
MaxPanelStarts == 2

\* ---------------------------------------------------------------- helpers

Min(a, b) == IF a < b THEN a ELSE b

\* Math.ceil(a / b) for a >= 0, b >= 1
CeilDiv(a, b) == (a + b - 1) \div b

\* ---------------------------------------------------------------- messages

\* One record shape for every message of the worker protocol.
\*   FRAME       idx = frame.index
\*   PART_READY  idx = partIndex, tot = totalParts, lo = startFrame, hi = endFrame
\*   COMPLETE    tot = totalFrames
Msg(t, idx, tot, lo, hi) == [type |-> t, idx |-> idx, tot |-> tot, lo |-> lo, hi |-> hi]

Plain(t) == Msg(t, 0, 0, 0, 0)

FrameMsg(index) == Msg("FRAME", index, 0, 0, 0)

PartMsg(partIndex, totalParts, startFrame, endFrame) ==
    Msg("PART_READY", partIndex, totalParts, startFrame, endFrame)

CompleteMsg(totalFrames) == Msg("COMPLETE", 0, totalFrames, 0, 0)

\* ---------------------------------------------------------------- state

VARIABLES
    settings,       \* ExtractionSettings: [splitEnabled, framesPerPart, processingMode, maxFrames]
    wk,             \* worker id -> the worker's own state
    out,            \* worker id -> messages posted to the main thread, not yet handled
    fileType,       \* file.type, the browser-reported MIME type
    trueType,       \* metadata.trueType, the sniffed type (Undefined when not set)
    api,            \* how ImageDecoder / VideoDecoder behave in this browser
    selResult,      \* what selectOptimalEngine returned ("pending" before the call)
    selectedEngine, \* useState selectedEngine
    engineStatus,   \* useState engineStatus
    usingEngine,    \* useState usingEngine
    worker,         \* useState worker: which worker object it holds
    effectDeps,     \* [selectedEngine, engineStatus] the worker effect last ran with
    frames,         \* useState frames
    parts,          \* useState parts
    progress,       \* status of the last onProgressUpdate
    main,           \* the main-thread image decodes started so far
    jobs,           \* number of startExtraction calls
    cancelAck,      \* cancelExtraction has returned and no extraction was started since
    late,           \* what the cancelled job still did while cancelAck held
    completed,      \* whose completion was handled since the last startExtraction
    byToggle,       \* settings.split.autoDownload -> what the caller then gets
    sampling,       \* settings.mode / fps / nth and metadata.fps of an EXTRACT request
    cmds,           \* the sampling arguments extractFrames builds for ffmpeg.exec
    det,            \* the detectAndSelect calls made so far, one per file supplied
    panel           \* the worker-on-mount ExtractionEngine: its useState values and workerRef

\* What is followed by a specification of its own, apart from the
\* orchestrator and the workers' message protocol.
apart == <<sampling, cmds, det, panel>>

inputs == <<fileType, trueType, api, apart>>

jobVars == <<usingEngine, worker, effectDeps, frames, parts, progress, main, jobs,
             cancelAck, late, completed, byToggle>>

ctl == <<inputs, selResult, selectedEngine, engineStatus, jobVars>>

\* The workers the orchestrator creates, and one free-standing adapter.
WIDs == {"adapter", "newWorker", "fallbackWorker", "ffmpegRef", "mountWorker"}

WorkerKinds == {"imgdec", "ffmpeg", "webcodecs"}

\* A worker that was never created.
NoWorker ==
    [kind |-> "none", pc |-> "none", inmsg |-> "none", task |-> "none",
     ready |-> FALSE, cancelled |-> FALSE, n |-> 0, i |-> 0, nf |-> 0,
     rest |-> {}, p |-> 0, tp |-> 0, lo |-> 0, hi |-> 0, wd |-> "off",
     pend |-> 0, initSent |-> FALSE, extracted |-> FALSE, hdone |-> FALSE,
     eng |-> "none", job |-> 0, via |-> "none", support |-> "unchecked",
     probed |-> FALSE, closedOver |-> <<>>]

\* new XWorker(): the script is about to run.
NewWorker(kind) == [NoWorker EXCEPT !.kind = kind, !.pc = "boot"]

Alive(w) == wk[w].kind # "none" /\ wk[w].pc \notin {"terminated", "closed", "failed"}

Engines == {"image-decoder", "webcodecs", "ffmpeg"}

\* settings.processingMode: 'auto', an engine, or not set at all
\* (DEFAULT_SETTINGS has no processingMode).
ProcessingModes == {"auto"} \cup Engines \cup {"undefined"}

SplitSettings ==
    {[splitEnabled |-> FALSE, framesPerPart |-> 0]} \cup
    {[splitEnabled |-> TRUE, framesPerPart |-> k] : k \in 0..MaxPartSize}

\* maxFrames: the frame cap (DEFAULT_SETTINGS has 2000, above any source
\* followed here).
WithMode(split, mode) ==
    [splitEnabled |-> split.splitEnabled, framesPerPart |-> split.framesPerPart,
     processingMode |-> mode, maxFrames |-> MaxFrames]

\* The same settings with the frame cap set in the settings panel.
WithMaxFrames(s, cap) == [s EXCEPT !.maxFrames = cap]

\* settings.split?.enabled && settings.split.framesPerPart > 0
SplitOn == settings.splitEnabled /\ settings.framesPerPart > 0


\* ------------------------------------------------------ media types

\* A MIME type as its two halves, so that startsWith('image/') and equality
\* with 'image/webp' are both computed.  Undefined: the property is not set;
\* Unknown: sniffTrueType's 'unknown'.
Mime(major, minor) == [major |-> major, minor |-> minor]

Undefined == Mime("", "undefined")
Unknown == Mime("unknown", "")

ImageTypes == {Mime("image", m) : m \in {"gif", "apng", "png", "webp"}}
VideoTypes == {Mime("video", m) : m \in {"mp4", "webm"}}

\* What sniffTrueType can return, and the property missing.
TrueTypes == ImageTypes \cup VideoTypes \cup {Unknown}

\* What a browser may report as file.type.
FileTypes == ImageTypes \cup VideoTypes \cup
             {Mime("image", "bmp"), Mime("application", "octet-stream")}

StartsWithImage(t) == t.major = "image"
StartsWithVideo(t) == t.major = "video"

\* metadata?.trueType || file.type
TrueOrFileType(tt, ft) == IF tt = Undefined THEN ft ELSE tt

\* ------------------------------------------------- capability probe

\* api.imageDecoder: "absent", or what isTypeSupported(file.type) does:
\*   "yes", "no", "throws".
\* api.videoDecoder: "absent", or the outcome of isConfigSupported for each
\*   codec tried, in order: a sequence over {"yes", "no", "throws"}.
ProbeOutcomes == {"yes", "no", "throws"}

Apis ==
    [imageDecoder : {"absent"} \cup ProbeOutcomes,
     videoDecoder : {<<"absent">>} \cup [1..MaxCodecs -> ProbeOutcomes]]

\* The image-decoder entry of detectProcessingCapabilities: the API missing
\* or throwing counts as unsupported.
ImageDecoderSupported(a) == a.imageDecoder = "yes"

\* The codec loop: the first codec reported supported ends it; a throwing
\* check is skipped.
RECURSIVE CodecLoop(_, _)
CodecLoop(results, i) ==
    IF i > Len(results) THEN FALSE
    ELSE IF results[i] = "yes" THEN TRUE
    ELSE CodecLoop(results, i + 1)

WebCodecsSupported(a) ==
    IF a.videoDecoder = <<"absent">> THEN FALSE ELSE CodecLoop(a.videoDecoder, 1)

\* detectProcessingCapabilities: one entry per engine; FFmpeg always.
DetectProcessingCapabilities(a) ==
    [e \in Engines |->
        CASE e = "image-decoder" -> ImageDecoderSupported(a)
          [] e = "webcodecs" -> WebCodecsSupported(a)
          [] e = "ffmpeg" -> TRUE]

\* ------------------------------------------------- engine selection

\* selectOptimalEngine(file, settings, metadata)
SelectOptimalEngine(ft, mode, a) ==
    IF mode # "auto" THEN mode
    ELSE LET caps == DetectProcessingCapabilities(a) IN
         IF StartsWithImage(ft) /\ caps["image-decoder"] THEN "image-decoder"
         ELSE IF StartsWithVideo(ft) /\ caps["webcodecs"] THEN "webcodecs"
         ELSE "ffmpeg"

\* detectAndSelect, settings.processingMode === 'auto': true type routing
AutoRoute(tt, ft) ==
    LET t == TrueOrFileType(tt, ft) IN
    IF t \in ImageTypes THEN "image-decoder"
    ELSE IF t \in VideoTypes THEN "ffmpeg"
    ELSE IF StartsWithImage(ft) THEN "image-decoder"
    ELSE "ffmpeg"

\* The engine detectAndSelect passes to setSelectedEngine.
DetectedEngine(tt, ft, mode, a) ==
    IF mode = "auto" THEN AutoRoute(tt, ft) ELSE SelectOptimalEngine(ft, mode, a)

\* What the caller has been handed: the frames and parts in state, and the
\* browser downloads triggered.
NoDelivery == [frames |-> <<>>, parts |-> <<>>, downloads |-> 0]

\* setFrames(prev => [...prev, frame])
FrameAccepted(d, frame) == [d EXCEPT !.frames = Append(@, frame)]

\* A PART_READY handler that keeps the part only when it also downloads it.
PartAcceptedOnlyWithDownload(d, part, autoDownload) ==
    IF autoDownload
    THEN [d EXCEPT !.parts = Append(@, part), !.downloads = @ + 1]
    ELSE d

\* case 'PART_READY' of newWorker.onmessage and of startFfmpeg: setParts with
\* the new part, then, if (settings.split?.autoDownload !== false), a click
\* on a download link.
PartAccepted(d, part, autoDownload) ==
    [d EXCEPT !.parts = Append(@, part),
              !.downloads = IF autoDownload THEN @ + 1 ELSE @]

\* case 'PART_READY' of the fallback worker made by newWorker.onerror:
\* setParts only.
PartAcceptedNoLink(d, part) == [d EXCEPT !.parts = Append(@, part)]

\* setFrames([])
FramesDropped(d) == [d EXCEPT !.frames = <<>>]

\* A value that is not given: settings.fps, settings.nth and metadata.fps
\* are optional.
Absent == -1

\* x ?? d
OrElse(x, d) == IF x = Absent THEN d ELSE x

\* DEFAULT_SETTINGS of the sampling fields, with no frame rate in the metadata.
DefaultSampling == [mode |-> "every", fps |-> Absent, nth |-> Absent, sourceFps |-> Absent]

\* No argument list has been built.
NotBuilt == [built |-> FALSE, filter |-> FALSE, num |-> 0, den |-> 1, vsync |-> FALSE]

\* Nothing of what the other specifications follow is under way.
\* The useState initial values and workerRef of the ExtractionEngine that makes
\* its worker on mount.
PanelInitial ==
    [isExtracting |-> FALSE, workerAlive |-> FALSE, ffmpegReady |-> FALSE,
     frames |-> 0, parts |-> 0, status |-> "idle", workerRef |-> "null",
     starts |-> 0]

ApartIdle ==
    /\ sampling = DefaultSampling /\ cmds = NotBuilt /\ det = <<>>
    /\ panel = PanelInitial

\* ProcessingController's state after mounting: the useState initial values,
\* and the worker effect has run once and returned early (engineStatus is
\* 'detecting').
Mounted ==
    /\ selectedEngine = "ffmpeg" /\ engineStatus = "detecting"
    /\ usingEngine = "null" /\ worker = "null"
    /\ effectDeps = <<"ffmpeg", "detecting">>
    /\ frames = <<>> /\ parts = <<>> /\ progress = "idle"
    /\ main = <<>> /\ jobs = 0
    /\ cancelAck = FALSE /\ late = {} /\ completed = {}
    /\ byToggle = [a \in BOOLEAN |-> NoDelivery]

\* The orchestrator before a file's detection has run, where the other
\* specifications leave it.
CtlIdle ==
    /\ fileType = Mime("image", "png") /\ trueType = Undefined
    /\ api = [imageDecoder |-> "absent", videoDecoder |-> <<"absent">>]
    /\ selResult = "pending"
    /\ Mounted

\* A call of selectOptimalEngine on the file and settings at hand.
CallSelectOptimalEngine ==
    /\ selResult = "pending"
    /\ selResult' = SelectOptimalEngine(fileType, settings.processingMode, api)
    /\ UNCHANGED <<settings, wk, out, inputs, selectedEngine, engineStatus, jobVars>>

\* The first effect's detectAndSelect() finishing: capabilities detected,
\* engine chosen, setSelectedEngine(engine), setEngineStatus('ready').
DetectAndSelect ==
    /\ engineStatus = "detecting"
    /\ selectedEngine' = DetectedEngine(trueType, fileType, settings.processingMode, api)
    /\ engineStatus' = "ready"
    /\ UNCHANGED <<settings, wk, out, inputs, selResult, jobVars>>

\* detectAndSelect's catch clause: something in the try block threw or
\* rejected (both library functions catch what the capability APIs throw, so
\* this takes an exception from outside their own try blocks):
\* setSelectedEngine('ffmpeg'); setEngineStatus('error').
DetectAndSelectCatch ==
    /\ engineStatus = "detecting"
    /\ selectedEngine' = "ffmpeg"
    /\ engineStatus' = "error"
    /\ UNCHANGED <<settings, wk, out, inputs, selResult, jobVars>>

InitSelect ==
    /\ settings \in {WithMode([splitEnabled |-> FALSE, framesPerPart |-> 0], m) :
                       m \in ProcessingModes}
    /\ fileType \in FileTypes /\ trueType \in TrueTypes \cup {Undefined}
    /\ api \in Apis
    /\ selResult = "pending"
    /\ Mounted /\ ApartIdle
    /\ wk = [w \in WIDs |-> NoWorker]
    /\ out = [w \in WIDs |-> <<>>]

NextSelect ==
    \/ CallSelectOptimalEngine
    \/ DetectAndSelect
    \/ DetectAndSelectCatch

\* ------------------------------------------------------- archive packager

\* const totalParts = Math.ceil(frames.length / framesPerPart)
TotalParts(len, framesPerPart) == CeilDiv(len, framesPerPart)

\* startIdx = partIndex * framesPerPart
PartStart(partIndex, framesPerPart) == partIndex * framesPerPart

\* endIdx = Math.min(startIdx + framesPerPart, frames.length); endFrame = endIdx - 1
PartEnd(partIndex, framesPerPart, len) ==
    Min(PartStart(partIndex, framesPerPart) + framesPerPart, len) - 1

\* -------------------------------------------------- worker: common pieces

Post(w, msgs) == out' = [out EXCEPT ![w] = @ \o msgs]

\* The first statement of each worker script: post ALIVE (ID_READY for the
\* image decoder).
WorkerBoot(w) ==
    /\ wk[w].pc = "boot"
    /\ wk' = [wk EXCEPT ![w].pc = "idle"]
    /\ Post(w, <<Plain(IF wk[w].kind = "imgdec" THEN "ID_READY" ELSE "ALIVE")>>)
    /\ UNCHANGED <<settings, ctl>>

\* onmessage, msg.type === 'CANCEL': cancelled = true; self.close().
\* close() discards the worker's pending tasks: nothing runs afterwards.
WorkerOnCancel(w) ==
    /\ Alive(w)
    /\ wk[w].pc # "boot"
    /\ wk' = [wk EXCEPT ![w].cancelled = (wk[w].kind # "imgdec"), ![w].pc = "closed"]
    /\ UNCHANGED <<settings, out, ctl>>

\* ---------------------------------------------- worker: ffmpeg.worker.ts

\* onmessage for INIT and EXTRACT: both begin with await initFFmpeg().
FfOnMessage(w) ==
    /\ wk[w].kind = "ffmpeg" /\ wk[w].pc = "idle"
    /\ wk[w].inmsg \in {"INIT", "EXTRACT"}
    /\ wk' = [wk EXCEPT ![w].pc = "init", ![w].task = wk[w].inmsg,
                        ![w].inmsg = "none"]
    /\ UNCHANGED <<settings, out, ctl>>

\* The handler returns (or its catch has run): its locals are gone, the
\* worker waits for the next message.
Returned(rec) ==
    [rec EXCEPT !.pc = "idle", !.hdone = TRUE, !.n = 0, !.i = 0, !.nf = 0,
                !.rest = {}, !.p = 0, !.tp = 0, !.lo = 0, !.hi = 0]

\* The messages initFFmpeg and the handler's catch post when ffmpeg.load
\* fails: initFFmpeg posts ERROR and rethrows, the catch posts ERROR again.
InitFailurePosts == <<Plain("ERROR"), Plain("ERROR")>>

\* initFFmpeg(): returns at once when already loaded; otherwise loads the
\* core, posts FFMPEG_READY, or fails.  After it an EXTRACT goes on to
\* extractFrames, an INIT returns.
FfInit(w) ==
    /\ wk[w].kind = "ffmpeg" /\ wk[w].pc = "init"
    /\ \E loaded \in BOOLEAN :
        LET next == IF wk[w].task = "EXTRACT" THEN "exec" ELSE "idle" IN
        IF wk[w].ready
        THEN /\ loaded
             /\ wk' = [wk EXCEPT ![w].pc = next]
             /\ UNCHANGED out
        ELSE IF loaded
        THEN /\ wk' = [wk EXCEPT ![w].pc = next, ![w].ready = TRUE]
             /\ Post(w, <<Plain("FFMPEG_READY")>>)
        ELSE /\ wk' = [wk EXCEPT ![w].pc = "idle",
                                 ![w].hdone = (wk[w].task = "EXTRACT")]
             /\ Post(w, InitFailurePosts)
    /\ UNCHANGED <<settings, ctl>>

\* extractFrames up to the directory listing: cancelled = false, writeFile,
\* exec, listDir.  produced = number of frame_%06d files written (the image2
\* muxer numbers them from 1, and '-frames:v maxFrames' stops it at the
\* cap); a failing writeFile/exec, or no file at all,
\* throws into the handler's catch, which posts ERROR.  While exec runs, the
\* 'progress' listener installed by initFFmpeg posts PROGRESS.
FfExec(w) ==
    /\ wk[w].kind = "ffmpeg" /\ wk[w].pc = "exec"
    /\ \E ok \in BOOLEAN, produced \in 0..Min(MaxFrames, settings.maxFrames) :
        IF ok /\ produced > 0
        THEN /\ wk' = [wk EXCEPT ![w].pc = "read", ![w].cancelled = FALSE,
                                 ![w].n = produced, ![w].rest = 1..produced,
                                 ![w].nf = 0]
             /\ Post(w, <<Plain("PROGRESS")>>)
        ELSE /\ (~ok => produced = 0)
             /\ wk' = [wk EXCEPT ![w] = Returned([@ EXCEPT !.cancelled = FALSE])]
             /\ Post(w, <<Plain("ERROR")>>)
    /\ UNCHANGED <<settings, ctl>>

\* const frameIndex = parseInt(filename.match(/frame_(\d+)/)?.[1] || '0', 10)
FfFrameIndex(fileNumber) == fileNumber

\* The split the worker starts once every frame is collected: part 0's range.
BeginParts(rec) ==
    IF SplitOn
    THEN [rec EXCEPT !.pc = "parts", !.p = 0,
                     !.tp = TotalParts(rec.nf, settings.framesPerPart),
                     !.lo = PartStart(0, settings.framesPerPart),
                     !.hi = PartEnd(0, settings.framesPerPart, rec.nf)]
    ELSE [rec EXCEPT !.pc = "parts", !.p = 0, !.tp = 1, !.lo = 0, !.hi = 0]

\* One iteration of `for (const file of frameFiles)`: readFile, post FRAME.
\* listDir's order is not sorted by the worker: any remaining file may be
\* next.  After the last file the code runs on to the split.
FfReadFrame(w) ==
    /\ wk[w].kind = "ffmpeg" /\ wk[w].pc = "read"
    /\ \E f \in wk[w].rest, ok \in BOOLEAN :
        IF wk[w].cancelled
        THEN /\ ok
             /\ wk' = [wk EXCEPT ![w].pc = "cleanup"]
             /\ UNCHANGED out
        ELSE IF ~ok
        THEN /\ wk' = [wk EXCEPT ![w] = Returned(@)]
             /\ Post(w, <<Plain("ERROR")>>)
        ELSE LET rec == [wk[w] EXCEPT !.rest = @ \ {f}, !.nf = @ + 1] IN
             /\ wk' = [wk EXCEPT ![w] = IF rec.rest = {} THEN BeginParts(rec) ELSE rec]
             /\ Post(w, <<FrameMsg(FfFrameIndex(f))>>)
    /\ UNCHANGED <<settings, ctl>>

\* After `await generateAsync`: post the part whose range was computed before
\* the await; then either compute the next part's range or, after the last
\* part, post COMPLETE with the current frames.length.
PostPart(w, afterComplete) ==
    /\ wk[w].pc = "parts"
    /\ LET rec == wk[w]
           k == settings.framesPerPart
           part == IF SplitOn
                   THEN PartMsg(rec.p + 1, rec.tp, rec.lo, rec.hi)
                   ELSE PartMsg(1, 1, 0, rec.nf - 1)
           last == (~SplitOn) \/ rec.p + 1 >= rec.tp
       IN IF last
          THEN /\ wk' = [wk EXCEPT ![w] = [rec EXCEPT !.pc = afterComplete,
                                                       !.p = @ + 1,
                                                       !.hdone = (afterComplete = "idle")]]
               /\ Post(w, <<part, CompleteMsg(rec.nf)>>)
          ELSE /\ wk' = [wk EXCEPT ![w] = [rec EXCEPT !.p = @ + 1,
                                !.lo = PartStart(rec.p + 1, k),
                                !.hi = PartEnd(rec.p + 1, k, rec.nf)]]
               /\ Post(w, <<part>>)
    /\ UNCHANGED <<settings, ctl>>

FfPostPart(w) ==
    /\ wk[w].kind = "ffmpeg"
    /\ PostPart(w, "cleanup")

\* The cleanup loops: every deleteFile sits in its own try/catch.
FfCleanup(w) ==
    /\ wk[w].kind = "ffmpeg" /\ wk[w].pc = "cleanup"
    /\ wk' = [wk EXCEPT ![w] = Returned(@)]
    /\ UNCHANGED <<settings, out, ctl>>

\* The frame files of the virtual filesystem that the FFmpeg worker has read
\* and not deleted: the read loop calls readFile and never deleteFile, so
\* every file read so far is still there until the cleanup loops, which run
\* after the last part and COMPLETE.
ReadNotDeleted(w) ==
    IF wk[w].kind = "ffmpeg" /\ wk[w].pc \in {"read", "parts", "cleanup"}
    THEN wk[w].nf
    ELSE 0

\* ----------------------------------------- worker: imageDecoder.worker.ts

\* (i + 1) % 2 === 0 || i === frameCount - 1
IdProgressDue(i, frameCount) == (i + 1) % 2 = 0 \/ i = frameCount - 1

\* onmessage, EXTRACT_IMGDEC, up to the frame loop.  reported: the selected
\* track gives a numeric frameCount.  Otherwise the handler probes: it
\* decodes indices 0, 1, ... until decode throws, takes the failing index
\* (frameCount here) as the count, closes the decoder, makes a second one
\* and assigns it to the const `decoder`, a TypeError that the handler's
\* catch reports.  The handler also ends with one ERROR when
\* ImageDecoder/OffscreenCanvas is missing, the type is refused, the buffer
\* or the decoder cannot be made, no frame is detected, or no size or
\* context is found.  Otherwise the watchdog interval is armed and the loop
\* starts at frame 0.
IdOnExtract(w) ==
    /\ wk[w].kind = "imgdec" /\ wk[w].pc = "idle"
    /\ wk[w].inmsg = "EXTRACT_IMGDEC"
    /\ \E ok \in BOOLEAN, frameCount \in 0..MaxFrames, reported \in BOOLEAN :
        IF ok /\ reported /\ frameCount >= 1
        THEN /\ wk' = [wk EXCEPT ![w].inmsg = "none", ![w].pc = "decode",
                                 ![w].n = frameCount, ![w].i = 0,
                                 ![w].wd = "armed"]
             /\ UNCHANGED out
        ELSE IF ok /\ ~reported
        THEN /\ wk' = [wk EXCEPT ![w].inmsg = "none", ![w].hdone = TRUE,
                                 ![w].n = frameCount, ![w].probed = TRUE]
             /\ Post(w, <<Plain("ERROR")>>)
        ELSE /\ (~ok => frameCount = 0) /\ reported
             /\ wk' = [wk EXCEPT ![w].inmsg = "none", ![w].hdone = TRUE]
             /\ Post(w, <<Plain("ERROR")>>)
    /\ UNCHANGED <<settings, ctl>>

\* What the loop does once the last frame is out: whether the interval is
\* cleared, and the messages posted.
IdAfterLastFrame(frameCount) == [wd |-> "off", posts |-> <<CompleteMsg(frameCount)>>]

\* One iteration of the frame loop (await decode, draw, await convertToBlob,
\* post FRAME, post PROGRESS when due).  "noimage": decode resolved without
\* an image (clearInterval, ERROR, return).  "throw": decode or
\* convertToBlob threw into the handler's catch, which posts ERROR and
\* leaves the interval running.  After the last frame: clearInterval,
\* COMPLETE.
IdDecodeFrame(w) ==
    /\ wk[w].kind = "imgdec" /\ wk[w].pc = "decode"
    /\ \E res \in {"image", "noimage", "throw"} :
        LET rec == wk[w]
            i == rec.i
            posts == <<FrameMsg(i)>> \o
                     (IF IdProgressDue(i, rec.n) THEN <<Plain("PROGRESS")>> ELSE <<>>)
            fin == IdAfterLastFrame(rec.n)
        IN CASE res = "image" /\ i + 1 < rec.n ->
                  /\ wk' = [wk EXCEPT ![w].i = i + 1]
                  /\ Post(w, posts)
             [] res = "image" /\ i + 1 >= rec.n ->
                  /\ wk' = [wk EXCEPT ![w].i = i + 1, ![w].pc = "idle",
                                      ![w].wd = IF rec.wd = "armed" THEN fin.wd ELSE rec.wd,
                                      ![w].hdone = TRUE]
                  /\ Post(w, posts \o fin.posts)
             [] res = "noimage" ->
                  /\ wk' = [wk EXCEPT ![w].pc = "idle", ![w].wd = "off",
                                      ![w].hdone = TRUE]
                  /\ Post(w, <<Plain("ERROR")>>)
             [] res = "throw" ->
                  /\ wk' = [wk EXCEPT ![w].pc = "idle", ![w].hdone = TRUE]
                  /\ Post(w, <<Plain("ERROR")>>)
    /\ UNCHANGED <<settings, ctl>>

\* The setInterval callback finding Date.now() - lastTick > TIMEOUT_MS:
\* clearInterval(watchdog); err('ImageDecoder stalled (watchdog)').  It
\* touches nothing else: a handler waiting in the loop goes on afterwards.
IdWatchdog(w) ==
    /\ wk[w].kind = "imgdec" /\ Alive(w)
    /\ wk[w].wd = "armed"
    /\ wk' = [wk EXCEPT ![w].wd = "off"]
    /\ Post(w, <<Plain("ERROR")>>)
    /\ UNCHANGED <<settings, ctl>>

\* ------------------------------------------ worker: webcodecs.worker.ts

\* What `await VideoDecoder.isConfigSupported(videoConfig)` can tell the
\* handler: supported, not supported, or nothing (the call itself throws).
SupportAnswers == {"supported", "unsupported", "threw"}

\* onmessage, EXTRACT, up to decoder.flush(): the VideoDecoder check, the
\* isConfigSupported check (on "unsupported" the try block throws, and the
\* catch of that block, as for "threw", only warns and goes on),
\* decoder.configure(videoConfig), the box walk, the decode calls (whose
\* own errors are swallowed).  ok = FALSE: VideoDecoder is
\* missing, or configure / readBox throws: the promise rejects and the
\* handler's catch posts ERROR.  outputs = the frames the decoder will hand
\* to the output callback (0 when no mdat box is found).
WcOnExtract(w) ==
    /\ wk[w].kind = "webcodecs" /\ wk[w].pc = "idle"
    /\ wk[w].inmsg = "EXTRACT"
    /\ \E ok \in BOOLEAN, outputs \in 0..MaxFrames, support \in SupportAnswers :
        IF ok
        THEN /\ wk' = [wk EXCEPT ![w].inmsg = "none", ![w].pc = "decoding",
                                 ![w].support = support,
                                 ![w].cancelled = FALSE, ![w].n = outputs,
                                 ![w].i = 0, ![w].nf = 0, ![w].pend = 0]
             /\ UNCHANGED out
        ELSE /\ outputs = 0 /\ support = "threw"
             /\ wk' = [wk EXCEPT ![w].inmsg = "none", ![w].hdone = TRUE]
             /\ Post(w, <<Plain("ERROR")>>)
    /\ UNCHANGED <<settings, ctl>>

\* The decoder calls the async output callback for the next frame; the
\* callback returns at once when processedFrames >= settings.maxFrames, and
\* otherwise runs up to `await canvas.convertToBlob(...)`.
WcOutput(w) ==
    /\ wk[w].kind = "webcodecs" /\ wk[w].pc \in {"decoding"}
    /\ wk[w].i < wk[w].n
    /\ wk' = [wk EXCEPT ![w].i = @ + 1,
                        ![w].pend = IF wk[w].nf >= settings.maxFrames THEN @ ELSE @ + 1]
    /\ UNCHANGED <<settings, out, ctl>>

\* index: processedFrames, read after the await
WcFrameIndex(processedFrames) == processedFrames

\* A pending output callback resumes after convertToBlob: frames.push,
\* post FRAME, processedFrames++, post PROGRESS.
WcBlobDone(w) ==
    /\ wk[w].kind = "webcodecs" /\ Alive(w)
    /\ wk[w].pend > 0
    /\ wk' = [wk EXCEPT ![w].pend = @ - 1, ![w].nf = @ + 1]
    /\ Post(w, <<FrameMsg(WcFrameIndex(wk[w].nf)), Plain("PROGRESS")>>)
    /\ UNCHANGED <<settings, ctl>>

\* A pending output callback throws (convertToBlob rejects, getContext
\* returns null, ...): its catch runs console.error and videoFrame.close(),
\* nothing is pushed or posted.
WcBlobThrows(w) ==
    /\ wk[w].kind = "webcodecs" /\ Alive(w)
    /\ wk[w].pend > 0
    /\ wk' = [wk EXCEPT ![w].pend = @ - 1]
    /\ UNCHANGED <<settings, out, ctl>>

\* The decoder's error callback: reject(new Error(...)); the handler's
\* catch posts ERROR.  Callbacks still waiting for their blob are untouched.
WcDecoderError(w) ==
    /\ wk[w].kind = "webcodecs" /\ wk[w].pc = "decoding"
    /\ wk' = [wk EXCEPT ![w].pc = "idle", ![w].hdone = TRUE]
    /\ Post(w, <<Plain("ERROR")>>)
    /\ UNCHANGED <<settings, ctl>>

\* decoder.flush().then(...): runs once every output callback has been
\* called (not: has finished).  if (!cancelled && frames.length > 0) the
\* split starts; otherwise decoder.close(); resolve() and the handler
\* returns having posted nothing.
WcFlushed(w) ==
    /\ wk[w].kind = "webcodecs" /\ wk[w].pc = "decoding"
    /\ wk[w].i = wk[w].n
    /\ wk' = [wk EXCEPT ![w] =
                IF ~wk[w].cancelled /\ wk[w].nf > 0
                THEN BeginParts(wk[w])
                ELSE [wk[w] EXCEPT !.pc = "idle", !.hdone = TRUE]]
    /\ UNCHANGED <<settings, out, ctl>>

WcPostPart(w) ==
    /\ wk[w].kind = "webcodecs"
    /\ PostPart(w, "idle")

\* ------------------------------------------- one adapter, free-standing

\* A message of the worker's input protocol arrives: INIT (FFmpeg only) or
\* the extract request of the worker's kind, each at most once per worker.
ExtractRequest(kind) == IF kind = "imgdec" THEN "EXTRACT_IMGDEC" ELSE "EXTRACT"

AdapterReceive(w) ==
    /\ w = "adapter" /\ Alive(w)
    /\ wk[w].pc = "idle" /\ wk[w].inmsg = "none" /\ ~wk[w].extracted
    /\ \E m \in {"INIT", "EXTRACT"} :
        /\ (m = "INIT") => (wk[w].kind = "ffmpeg" /\ ~wk[w].initSent)
        /\ (m = "EXTRACT" /\ wk[w].kind = "ffmpeg") => wk[w].ready
        /\ wk' = [wk EXCEPT ![w].inmsg = IF m = "INIT" THEN "INIT"
                                                    ELSE ExtractRequest(wk[w].kind),
                            ![w].initSent = (@ \/ m = "INIT"),
                            ![w].extracted = (m = "EXTRACT")]
    /\ UNCHANGED <<settings, out, ctl>>

AdapterCancel(w) ==
    /\ w = "adapter"
    /\ WorkerOnCancel(w)

InitWorker ==
    /\ settings \in {WithMaxFrames(WithMode(sp, "auto"), cap) :
                       sp \in SplitSettings, cap \in 1..MaxFrames}
    /\ CtlIdle /\ ApartIdle
    /\ \E kind \in WorkerKinds :
         wk = [w \in WIDs |-> IF w = "adapter" THEN NewWorker(kind) ELSE NoWorker]
    /\ out = [w \in WIDs |-> <<>>]

NextWorker ==
    \E w \in {"adapter"} :
        \/ WorkerBoot(w)
        \/ AdapterReceive(w)
        \/ AdapterCancel(w)
        \/ FfOnMessage(w)
        \/ FfInit(w)
        \/ FfExec(w)
        \/ FfReadFrame(w)
        \/ FfPostPart(w)
        \/ FfCleanup(w)
        \/ IdOnExtract(w)
        \/ IdDecodeFrame(w)
        \/ IdWatchdog(w)
        \/ WcOnExtract(w)
        \/ WcOutput(w)
        \/ WcBlobDone(w)
        \/ WcBlobThrows(w)
        \/ WcDecoderError(w)
        \/ WcFlushed(w)
        \/ WcPostPart(w)

vars == <<settings, wk, out, ctl>>

SpecWorker == InitWorker /\ [][NextWorker]_vars

SpecSelect == InitSelect /\ [][NextSelect]_vars

\* ------------------------------------------- ProcessingController

\* The worker effect has to re-run: one of its dependencies changed since it
\* last ran.  React runs it before the next event is handled.
EffectPending == effectDeps # <<selectedEngine, engineStatus>>

\* A worker that has a step to take: it is not waiting for a message.
Busy(w) ==
    /\ wk[w].kind # "none"
    /\ wk[w].pc \notin {"terminated", "closed", "failed"}
    /\ ~(wk[w].pc = "idle" /\ wk[w].inmsg = "none")

\* The main thread takes its next event once the pending effect has run and
\* the workers have run on to their next wait.  A worker only appends to its
\* own port, and the main thread only takes that port's head or discards the
\* port, so a worker running ahead hides no behaviour of the orchestrator.
MainThreadTurn ==
    /\ ~EffectPending
    /\ \A w \in WIDs : ~Busy(w)

\* The worker script fails to load or throws while it is evaluated: the
\* worker never runs, and an error event is queued for the Worker object's
\* onerror (lost when no onerror is installed).
WorkerFail(w) ==
    /\ wk[w].kind # "none" /\ wk[w].pc = "boot"
    /\ wk' = [wk EXCEPT ![w].pc = "failed"]
    /\ out' = [out EXCEPT ![w] =
                 IF w \in {"newWorker", "ffmpegRef", "mountWorker"}
                 THEN <<Plain("error")>> ELSE <<>>]
    /\ UNCHANGED <<settings, ctl>>

\* worker.terminate(): the worker stops, and nothing it posted is delivered
\* any more.
Terminated(wkf, w) ==
    IF wkf[w].kind = "none" THEN wkf
    ELSE [wkf EXCEPT ![w] = [NoWorker EXCEPT !.kind = wkf[w].kind, !.pc = "terminated"]]

Cleared(outf, w) == [outf EXCEPT ![w] = <<>>]

\* switch (selectedEngine): which worker script is started
EngineKind(engine) ==
    CASE engine = "image-decoder" -> "imgdec"
      [] engine = "webcodecs" -> "webcodecs"
      [] OTHER -> "ffmpeg"

\* A worker created by the orchestrator; eng is the selectedEngine its
\* handlers close over, closedOver the `frames` constant of the render they
\* were made in, via tells the two fallback handlers apart.
Created(kind, engine, via, job, seen) ==
    [NewWorker(kind) EXCEPT !.eng = engine, !.via = via, !.job = job,
                            !.closedOver = seen]

\* const allowFallback = tt !== 'image/webp' && tt !== 'image/gif' && tt !== 'image/apng'
AllowFallback(tt, ft) ==
    TrueOrFileType(tt, ft) \notin
        {Mime("image", "webp"), Mime("image", "gif"), Mime("image", "apng")}

\* case 'ERROR': if (selectedEngine === 'image-decoder' && file) and
\* allowFallback, the handler falls back to FFmpeg.
FallbackOnErrorMessage(eng) ==
    eng = "image-decoder" /\ AllowFallback(trueType, fileType)

\* newWorker.onerror: if (selectedEngine === 'image-decoder') it falls back.
FallbackOnCrash(eng) == eng = "image-decoder"

\* setFrames(prev => [...prev, frame])
FrameFrom(w, m) == [src |-> w, job |-> wk[w].job, index |-> m.idx]

\* setParts(prev => [...prev, newPart])
PartFrom(w, m) ==
    [src |-> w, job |-> wk[w].job, partIndex |-> m.idx, totalParts |-> m.tot,
     startFrame |-> m.lo, endFrame |-> m.hi]

\* abortRef.current?.abort()
Aborted(runs) ==
    IF runs = <<>> \/ runs[Len(runs)].pc = "done" THEN runs
    ELSE [runs EXCEPT ![Len(runs)].aborted = TRUE]

\* A main-thread image decode that has returned or thrown.
DoneRun ==
    [pc |-> "done", i |-> 0, count |-> 0, aborted |-> FALSE, job |-> 0,
     closedOver |-> <<>>]

\* The second effect, deps [selectedEngine, engineStatus, file]: the cleanup
\* of the previous run (if it got as far as returning one) terminates its
\* worker; then, when engineStatus is 'ready', a worker for selectedEngine is
\* created and stored with setWorker.
WorkerEffect ==
    /\ EffectPending
    /\ LET armed == effectDeps[2] = "ready"
           wk1 == IF armed THEN Terminated(wk, "newWorker") ELSE wk
           out1 == IF armed THEN Cleared(out, "newWorker") ELSE out
       IN IF engineStatus = "ready"
          THEN /\ wk' = [wk1 EXCEPT !["newWorker"] =
                            Created(EngineKind(selectedEngine), selectedEngine, "none", jobs,
                                    frames)]
               /\ out' = Cleared(out1, "newWorker")
               /\ worker' = "newWorker"
          ELSE /\ wk' = wk1
               /\ out' = out1
               /\ UNCHANGED worker
    /\ effectDeps' = <<selectedEngine, engineStatus>>
    /\ UNCHANGED <<settings, inputs, selResult, selectedEngine, engineStatus,
                   usingEngine, frames, parts, progress, main, jobs, cancelAck,
                   late, completed, byToggle>>

\* newWorker.onmessage
NewWorkerOnMessage ==
    LET w == "newWorker"
        m == Head(out[w])
        eng == wk[w].eng
        fallback == m.type = "ERROR" /\ FallbackOnErrorMessage(eng)
    IN
    /\ MainThreadTurn /\ out[w] # <<>> /\ Head(out[w]).type # "error"
    /\ wk' = IF m.type = "ALIVE" /\ eng = "ffmpeg"
             THEN [wk EXCEPT ![w].inmsg = "INIT"]
             ELSE IF fallback
             THEN [Terminated(wk, w) EXCEPT
                      !["fallbackWorker"] = Created("ffmpeg", "ffmpeg", "message", jobs,
                                                      wk[w].closedOver)]
             ELSE wk
    /\ out' = IF fallback THEN Cleared(Cleared(out, w), "fallbackWorker")
              ELSE [out EXCEPT ![w] = Tail(@)]
    /\ selectedEngine' = IF fallback THEN "ffmpeg" ELSE selectedEngine
    /\ worker' = IF fallback THEN "fallbackWorker" ELSE worker
    /\ frames' = IF m.type = "FRAME" THEN Append(frames, FrameFrom(w, m)) ELSE frames
    /\ parts' = IF m.type = "PART_READY" THEN Append(parts, PartFrom(w, m)) ELSE parts
    /\ byToggle' = [a \in BOOLEAN |->
                      IF m.type = "FRAME" THEN FrameAccepted(byToggle[a], FrameFrom(w, m))
                      ELSE IF m.type = "PART_READY"
                      THEN PartAccepted(byToggle[a], PartFrom(w, m), a)
                      ELSE byToggle[a]]
    /\ progress' = IF m.type = "PROGRESS" THEN "processing" ELSE progress
    /\ engineStatus' = IF m.type = "COMPLETE" THEN "ready"
                       ELSE IF m.type = "ERROR" /\ ~fallback THEN "error"
                       ELSE engineStatus
    /\ completed' = IF m.type = "COMPLETE" THEN completed \cup {w} ELSE completed
    /\ UNCHANGED <<settings, inputs, selResult, usingEngine, effectDeps, main,
                   jobs, cancelAck, late>>

\* newWorker.onerror
NewWorkerOnError ==
    LET w == "newWorker"
        fallback == FallbackOnCrash(wk[w].eng)
    IN
    /\ MainThreadTurn /\ out[w] # <<>> /\ Head(out[w]).type = "error"
    /\ wk' = IF fallback
             THEN [Terminated(wk, w) EXCEPT
                      !["fallbackWorker"] = Created("ffmpeg", "ffmpeg", "crash", jobs,
                                                      wk[w].closedOver)]
             ELSE wk
    /\ out' = IF fallback THEN Cleared(Cleared(out, w), "fallbackWorker")
              ELSE [out EXCEPT ![w] = Tail(@)]
    /\ selectedEngine' = IF fallback THEN "ffmpeg" ELSE selectedEngine
    /\ worker' = IF fallback THEN "fallbackWorker" ELSE worker
    /\ engineStatus' = IF fallback THEN engineStatus ELSE "error"
    /\ UNCHANGED <<settings, inputs, selResult, usingEngine, effectDeps, frames,
                   parts, progress, main, jobs, cancelAck, late, completed, byToggle>>

\* fallbackWorker.onmessage, as written in the ERROR case of
\* newWorker.onmessage (via = "message": FRAME handled, PART_READY not) and
\* in newWorker.onerror (via = "crash": PART_READY handled, FRAME not).
FallbackOnMessage ==
    LET w == "fallbackWorker"
        m == Head(out[w])
        via == wk[w].via
    IN
    /\ MainThreadTurn /\ out[w] # <<>> /\ Head(out[w]).type # "error"
    /\ wk' = IF m.type = "ALIVE" THEN [wk EXCEPT ![w].inmsg = "INIT"]
             ELSE IF m.type = "FFMPEG_READY" THEN [wk EXCEPT ![w].inmsg = "EXTRACT"]
             ELSE wk
    /\ out' = [out EXCEPT ![w] = Tail(@)]
    /\ frames' = IF m.type = "FRAME" /\ via = "message"
                 THEN Append(frames, FrameFrom(w, m)) ELSE frames
    /\ parts' = IF m.type = "PART_READY" /\ via = "crash"
                THEN Append(parts, PartFrom(w, m)) ELSE parts
    /\ byToggle' = [a \in BOOLEAN |->
                      IF m.type = "FRAME" /\ via = "message"
                      THEN FrameAccepted(byToggle[a], FrameFrom(w, m))
                      ELSE IF m.type = "PART_READY" /\ via = "crash"
                      THEN PartAcceptedNoLink(byToggle[a], PartFrom(w, m))
                      ELSE byToggle[a]]
    /\ progress' = IF m.type = "PROGRESS" THEN "processing" ELSE progress
    /\ engineStatus' = IF m.type = "COMPLETE" THEN "ready"
                       ELSE IF m.type = "ERROR" THEN "error"
                       ELSE engineStatus
    /\ completed' = IF m.type = "COMPLETE" THEN completed \cup {w} ELSE completed
    /\ UNCHANGED <<settings, inputs, selResult, selectedEngine, usingEngine,
                   worker, effectDeps, main, jobs, cancelAck, late>>

\* w.onmessage of startFfmpeg
FfmpegRefOnMessage ==
    LET w == "ffmpegRef"
        m == Head(out[w])
    IN
    /\ MainThreadTurn /\ out[w] # <<>> /\ Head(out[w]).type # "error"
    /\ wk' = IF m.type = "ALIVE" THEN [wk EXCEPT ![w].inmsg = "INIT"]
             ELSE IF m.type = "FFMPEG_READY" THEN [wk EXCEPT ![w].inmsg = "EXTRACT"]
             ELSE wk
    /\ out' = [out EXCEPT ![w] = Tail(@)]
    /\ frames' = IF m.type = "FRAME" THEN Append(frames, FrameFrom(w, m)) ELSE frames
    /\ parts' = IF m.type = "PART_READY" THEN Append(parts, PartFrom(w, m)) ELSE parts
    /\ byToggle' = [a \in BOOLEAN |->
                      IF m.type = "FRAME" THEN FrameAccepted(byToggle[a], FrameFrom(w, m))
                      ELSE IF m.type = "PART_READY"
                      THEN PartAccepted(byToggle[a], PartFrom(w, m), a)
                      ELSE byToggle[a]]
    /\ progress' = IF m.type = "PROGRESS" THEN "processing"
                   ELSE IF m.type = "COMPLETE" THEN "complete"
                   ELSE progress
    /\ engineStatus' = IF m.type = "COMPLETE" THEN "ready"
                       ELSE IF m.type = "ERROR" THEN "error"
                       ELSE engineStatus
    /\ completed' = IF m.type = "COMPLETE" THEN completed \cup {w} ELSE completed
    /\ late' = IF ~cancelAck THEN late
               ELSE IF m.type = "FRAME" THEN late \cup {"frame"}
               ELSE IF m.type = "COMPLETE" THEN late \cup {"complete"}
               ELSE late
    /\ UNCHANGED <<settings, inputs, selResult, selectedEngine, usingEngine,
                   worker, effectDeps, main, jobs, cancelAck>>

\* w.onerror of startFfmpeg
FfmpegRefOnError ==
    LET w == "ffmpegRef" IN
    /\ MainThreadTurn /\ out[w] # <<>> /\ Head(out[w]).type = "error"
    /\ out' = [out EXCEPT ![w] = Tail(@)]
    /\ engineStatus' = "error"
    /\ UNCHANGED <<settings, wk, inputs, selResult, selectedEngine, jobVars>>

\* A main-thread image decode that has just been started, by the job-th
\* startExtraction.
NewRun(job, seen) ==
    [pc |-> "setup", i |-> 0, count |-> 0, aborted |-> FALSE, job |-> job,
     closedOver |-> seen]

\* startExtraction, from the Start button (enabled unless detecting; while
\* processing the button cancels instead): frames and parts are reset, then
\* the true type alone routes to startImageOnMain or startFfmpeg.
StartExtraction ==
    /\ MainThreadTurn /\ engineStatus \in {"ready", "error"}
    /\ jobs < MaxStarts
    /\ jobs' = jobs + 1
    /\ frames' = <<>> /\ parts' = <<>>
    /\ byToggle' = [a \in BOOLEAN |-> NoDelivery]
    /\ progress' = "processing" /\ engineStatus' = "processing"
    /\ IF StartsWithImage(TrueOrFileType(trueType, fileType))
       THEN /\ usingEngine' = "imgdec"
            /\ main' = Append(Aborted(main), NewRun(jobs + 1, frames))
            /\ UNCHANGED <<wk, out, worker>>
       ELSE /\ usingEngine' = "ffmpeg"
            /\ wk' = [Terminated(wk, "ffmpegRef") EXCEPT
                         !["ffmpegRef"] = Created("ffmpeg", "ffmpeg", "none", jobs + 1, frames)]
            /\ out' = Cleared(out, "ffmpegRef")
            /\ worker' = "ffmpegRef"
            /\ UNCHANGED main
    /\ cancelAck' = FALSE /\ late' = {} /\ completed' = {}
    /\ UNCHANGED <<settings, inputs, selResult, selectedEngine, effectDeps>>

\* cancelExtraction, from the same button while processing.
CancelExtraction ==
    /\ MainThreadTurn /\ engineStatus = "processing"
    /\ main' = Aborted(main)
    /\ LET wk1 == Terminated(wk, "ffmpegRef")
           out1 == Cleared(out, "ffmpegRef")
       IN IF worker = "null"
          THEN wk' = wk1 /\ out' = out1
          ELSE wk' = Terminated(wk1, worker) /\ out' = Cleared(out1, worker)
    /\ worker' = "null"
    /\ frames' = <<>>
    /\ byToggle' = [a \in BOOLEAN |-> FramesDropped(byToggle[a])]
    /\ engineStatus' = "ready"
    /\ progress' = "idle"
    /\ cancelAck' = TRUE /\ late' = {}
    /\ UNCHANGED <<settings, inputs, selResult, selectedEngine, usingEngine,
                   effectDeps, parts, jobs, completed>>

\* extractAnimatedImageOnMain up to its first decode: ImageDecoder missing,
\* no frame detected, no frame size or no 2D context throw, and so does the
\* first decode after a probe of the frame count, which leaves `dec` closed
\* (startImageOnMain's catch sets 'error'); otherwise the loop starts with
\* its abort check.
MainSetup(r) ==
    /\ MainThreadTurn /\ r \in DOMAIN main /\ main[r].pc = "setup"
    /\ \E ok \in BOOLEAN, count \in 0..MaxFrames :
        IF ok /\ count >= 1
        THEN /\ main' = [main EXCEPT ![r] = IF main[r].aborted THEN DoneRun
                                            ELSE [@ EXCEPT !.count = count, !.pc = "decoding"]]
             /\ UNCHANGED engineStatus
        ELSE /\ (~ok => count = 0)
             /\ main' = [main EXCEPT ![r] = DoneRun]
             /\ engineStatus' = "error"
    /\ UNCHANGED <<settings, wk, out, inputs, selResult, selectedEngine,
                   usingEngine, worker, effectDeps, frames, parts, progress,
                   jobs, cancelAck, late, completed, byToggle>>

\* One iteration after its abort check: decode, draw, toBlob, then
\* onFrame(i, ...) and onProgress; a throwing decode ends in the catch; a
\* decode() whose promise never settles leaves the function waiting in its
\* await (no timer is armed around it).
MainFrame(r) ==
    /\ MainThreadTurn /\ r \in DOMAIN main /\ main[r].pc = "decoding"
    /\ \E res \in {"image", "throw", "stall"} :
        CASE res = "image" ->
             /\ frames' = Append(frames, [src |-> "main", job |-> main[r].job, index |-> main[r].i])
             /\ byToggle' = [a \in BOOLEAN |->
                    FrameAccepted(byToggle[a],
                        [src |-> "main", job |-> main[r].job, index |-> main[r].i])]
             /\ progress' = "processing"
             /\ main' = [main EXCEPT ![r].pc = "yield"]
             /\ late' = IF cancelAck THEN late \cup {"frame"} ELSE late
             /\ UNCHANGED engineStatus
          [] res = "throw" ->
             /\ main' = [main EXCEPT ![r] = DoneRun]
             /\ engineStatus' = "error"
             /\ UNCHANGED <<frames, progress, late, byToggle>>
          [] res = "stall" ->
             /\ main' = [main EXCEPT ![r].pc = "stalled"]
             /\ UNCHANGED <<engineStatus, frames, progress, late, byToggle>>
    /\ UNCHANGED <<settings, wk, out, inputs, selResult, selectedEngine,
                   usingEngine, worker, effectDeps, parts, jobs, cancelAck,
                   completed>>

\* After the setTimeout(0) yield: the next iteration's abort check, or, past
\* the last frame, the return into startImageOnMain: setEngineStatus('ready'),
\* progress 'complete', onFramesExtracted.
MainResume(r) ==
    /\ MainThreadTurn /\ r \in DOMAIN main /\ main[r].pc = "yield"
    /\ IF main[r].i + 1 < main[r].count
       THEN /\ main' = [main EXCEPT ![r] = IF main[r].aborted THEN DoneRun
                                           ELSE [@ EXCEPT !.i = @ + 1, !.pc = "decoding"]]
            /\ UNCHANGED <<engineStatus, progress, late, completed>>
       ELSE /\ main' = [main EXCEPT ![r] = DoneRun]
            /\ engineStatus' = "ready"
            /\ progress' = "complete"
            /\ completed' = completed \cup {"main"}
            /\ late' = IF cancelAck THEN late \cup {"complete"} ELSE late
    /\ UNCHANGED <<settings, wk, out, inputs, selResult, selectedEngine,
                   usingEngine, worker, effectDeps, frames, parts, jobs, cancelAck,
                   byToggle>>

\* The files and settings the orchestrator is followed with.
FileCases ==
    {<<Mime("image", "png"), Mime("image", "png")>>,
     <<Mime("video", "mp4"), Mime("video", "mp4")>>,
     <<Mime("image", "gif"), Mime("image", "gif")>>,
     <<Unknown, Mime("image", "png")>>}

SplitCases ==
    {[splitEnabled |-> FALSE, framesPerPart |-> 0],
     [splitEnabled |-> TRUE, framesPerPart |-> MaxPartSize - 1]}

Init ==
    /\ \E sp \in SplitCases, m \in ProcessingModes : settings = WithMode(sp, m)
    /\ \E fc \in FileCases : trueType = fc[1] /\ fileType = fc[2]
    /\ api = [imageDecoder |-> "yes", videoDecoder |-> <<"absent">>]
    /\ selResult = "pending"
    /\ Mounted /\ ApartIdle
    /\ wk = [w \in WIDs |-> NoWorker]
    /\ out = [w \in WIDs |-> <<>>]

Next ==
    \/ DetectAndSelect
    \/ DetectAndSelectCatch
    \/ WorkerEffect
    \/ NewWorkerOnMessage
    \/ NewWorkerOnError
    \/ FallbackOnMessage
    \/ FfmpegRefOnMessage
    \/ FfmpegRefOnError
    \/ StartExtraction
    \/ CancelExtraction
    \/ \E r \in 1..MaxStarts :
        \/ MainSetup(r)
        \/ MainFrame(r)
        \/ MainResume(r)
    \/ \E w \in {"newWorker", "fallbackWorker", "ffmpegRef"} :
        \/ WorkerBoot(w)
        \/ WorkerFail(w)
        \/ FfOnMessage(w)
        \/ FfInit(w)
        \/ FfExec(w)
        \/ FfReadFrame(w)
        \/ FfPostPart(w)
        \/ FfCleanup(w)

Spec == Init /\ [][Next]_vars

\* What runs without the user: the event loop takes every task that is
\* ready (effects, message handlers, continuations of awaits, worker code).
\* startExtraction and cancelExtraction wait for a click.
ProgramNext ==
    \/ DetectAndSelect
    \/ DetectAndSelectCatch
    \/ WorkerEffect
    \/ NewWorkerOnMessage
    \/ NewWorkerOnError
    \/ FallbackOnMessage
    \/ FfmpegRefOnMessage
    \/ FfmpegRefOnError
    \/ \E r \in 1..MaxStarts :
        \/ MainSetup(r)
        \/ MainFrame(r)
        \/ MainResume(r)
    \/ \E w \in {"newWorker", "fallbackWorker", "ffmpegRef"} :
        \/ WorkerBoot(w)
        \/ WorkerFail(w)
        \/ FfOnMessage(w)
        \/ FfInit(w)
        \/ FfExec(w)
        \/ FfReadFrame(w)
        \/ FfPostPart(w)
        \/ FfCleanup(w)

\* The orchestrator under the event loop's scheduling: a task that stays
\* ready is eventually run.
SpecFair == Spec /\ WF_vars(ProgramNext)

\* ------------------------------------------- claims on the adapter worker

\* Everything the free-standing adapter has posted (nothing consumes it).
Posted == out["adapter"]

IsFrame(m) == m.type = "FRAME"
IsPart(m) == m.type = "PART_READY"
IsTerminal(m) == m.type \in {"COMPLETE", "ERROR"}

PostedFrames == SelectSeq(Posted, IsFrame)
PostedParts == SelectSeq(Posted, IsPart)
TerminalPositions == {k \in DOMAIN Posted : IsTerminal(Posted[k])}
CompletePositions == {k \in DOMAIN Posted : Posted[k].type = "COMPLETE"}

\* C3: a run that ends with COMPLETE{totalFrames: N} has emitted frames whose
\* indices are exactly 0..N-1, each once.
C3_IndicesAreZeroToN ==
    \A k \in CompletePositions :
        /\ Len(PostedFrames) = Posted[k].tot
        /\ {PostedFrames[j].idx : j \in DOMAIN PostedFrames} = 0..(Posted[k].tot - 1)

\* C4: over a worker's lifetime at most one terminal message (COMPLETE or
\* ERROR) is posted, and no FRAME follows an ERROR.
C4_AtMostOneTerminal ==
    /\ Cardinality(TerminalPositions) <= 1
    /\ \A k \in DOMAIN Posted : \A j \in DOMAIN Posted :
           (Posted[k].type = "ERROR" /\ j > k) => Posted[j].type # "FRAME"

\* C5: a worker whose extract handler has returned, and which was not
\* cancelled, has posted exactly one of COMPLETE or ERROR.
C5_ExactlyOneTerminal ==
    (wk["adapter"].hdone /\ Alive("adapter") /\ ~wk["adapter"].cancelled)
        => Cardinality(TerminalPositions) = 1

\* C6: split export with framesPerPart = K >= 1, job completed with N >= 1
\* frames: ceil(N/K) parts, every part but the last covers K frames, the
\* ranges are pairwise disjoint and their union is 0..N-1.
PartRange(m) == m.lo .. m.hi

C6_SplitCoversAllFrames ==
    \A k \in CompletePositions :
        (SplitOn /\ Posted[k].tot >= 1 /\ wk["adapter"].kind \in {"ffmpeg", "webcodecs"}) =>
            LET N == Posted[k].tot
                K == settings.framesPerPart
                ps == PostedParts
            IN /\ Len(ps) = CeilDiv(N, K)
               /\ \A j \in 1..(Len(ps) - 1) : ps[j].hi - ps[j].lo + 1 = K
               /\ \A a \in DOMAIN ps : \A b \in DOMAIN ps :
                      a # b => PartRange(ps[a]) \cap PartRange(ps[b]) = {}
               /\ UNION {PartRange(ps[j]) : j \in DOMAIN ps} = 0..(N - 1)


\* ------------------------------------------ claims on engine selection

\* C8: selectOptimalEngine never throws and always returns one of the three
\* engine values, whatever the file, the settings (processingMode absent
\* included) and the behaviour of the capability APIs.
C8_SelectionReturnsAnEngine ==
    selResult # "pending" => selResult \in Engines

\* The engine the automatic rule should choose for a sniffed media kind:
\* animated-image kinds go to the image decoder, mp4/webm to WebCodecs when
\* the capability probe supports it and to FFmpeg otherwise, unknown to
\* FFmpeg; the MIME type plays no part.
AutoRuleEngine(kind, probeSupported) ==
    IF kind \in ImageTypes THEN "image-decoder"
    ELSE IF kind \in VideoTypes
         THEN (IF probeSupported THEN "webcodecs" ELSE "ffmpeg")
    ELSE "ffmpeg"

\* C10: in automatic mode the engine chosen for a file depends only on its
\* sniffed kind and the WebCodecs probe: gif/apng/webp/png -> image decoder,
\* mp4/webm -> WebCodecs iff the probe supports it else FFmpeg, unknown ->
\* FFmpeg, regardless of the MIME type.
C10_AutoRoutesBySniffedKind ==
    (engineStatus = "ready" /\ settings.processingMode = "auto" /\ trueType # Undefined)
        => selectedEngine = AutoRuleEngine(trueType, WebCodecsSupported(api))

\* ------------------------------------------- claims on the orchestrator

FramesFrom(src) == {k \in DOMAIN frames : frames[k].src = src}

FrameIndices == {frames[k].index : k \in DOMAIN frames}

\* C1: on a fallback from the image decoder to FFmpeg (after an ERROR message
\* or a crash) the frames of the failed engine are removed before any FFmpeg
\* frame is accepted, and once the fallback job has completed the frame set
\* holds only the fallback's FFmpeg frames, with indices counting from 0.
\* (Taken for a fallback that no later startExtraction interferes with.)
C1_FallbackDiscardsFailedEngineFrames ==
    (wk["fallbackWorker"].kind # "none" /\ wk["fallbackWorker"].job = jobs) =>
        /\ FramesFrom("fallbackWorker") # {} => FramesFrom("fallbackWorker") = DOMAIN frames
        /\ "fallbackWorker" \in completed =>
              /\ FramesFrom("fallbackWorker") = DOMAIN frames
              /\ FrameIndices = 0..(Len(frames) - 1)

\* C2: once cancelExtraction has returned, the cancelled job adds no frame and
\* no completion is handled for it, whenever the cancel arrives (during a
\* frame's decode, or after the last frame and before the adapter returns).
C2_NothingAfterCancel ==
    cancelAck => late = {}

\* C7: with split disabled, a job that completes has emitted exactly one part,
\* covering frames 0..N-1, whichever engine ran it.
C7_SinglePartWhenSplitDisabled ==
    (~SplitOn /\ completed # {}) =>
        /\ Len(parts) = 1
        /\ parts[1].startFrame = 0
        /\ parts[1].endFrame = Len(frames) - 1

\* usingEngine under the engine's ProcessingEngine name
UsingEngineName == IF usingEngine = "imgdec" THEN "image-decoder" ELSE usingEngine

\* C9: with an explicit (non-auto) processingMode, the engine that processes
\* the job startExtraction starts is the engine named by the mode, unless an
\* error fallback to FFmpeg has taken place.
C9_ExplicitModeIsHonoured ==
    (settings.processingMode \in Engines /\ jobs >= 1
        /\ wk["fallbackWorker"].kind = "none") =>
        UsingEngineName = settings.processingMode


\* ------------------------------- claims on error handling and fallback

Handlers(w) ==
    CASE w = "newWorker" -> NewWorkerOnMessage \/ NewWorkerOnError
      [] w = "fallbackWorker" -> FallbackOnMessage
      [] w = "ffmpegRef" -> FfmpegRefOnMessage \/ FfmpegRefOnError

\* This step handles a fatal error of worker w: its ERROR message or the
\* error event of a crash.
HandlesErrorMessage(w) ==
    /\ out[w] # <<>> /\ Head(out[w]).type = "ERROR"
    /\ Handlers(w)

HandlesCrash(w) ==
    /\ out[w] # <<>> /\ Head(out[w]).type = "error"
    /\ Handlers(w)

\* This step is the main-thread image decode r throwing into
\* startImageOnMain's catch (not as 'Cancelled').
MainDecodeFails(r) ==
    /\ r \in DOMAIN main /\ ~main[r].aborted
    /\ MainSetup(r) \/ MainFrame(r)
    /\ main'[r] = DoneRun

\* The engine whose adapter worker w is.
EngineOf(w) ==
    CASE wk[w].kind = "imgdec" -> "image-decoder"
      [] wk[w].kind = "webcodecs" -> "webcodecs"
      [] OTHER -> "ffmpeg"

EntersError == engineStatus' = "error"

FallsBack ==
    /\ wk'["fallbackWorker"].pc = "boot"
    /\ selectedEngine' = "ffmpeg"
    /\ engineStatus' # "error"

\* The rule for a failing adapter: Error when the engine is FFmpeg already
\* or the media kind allows no fallback, a fallback to FFmpeg otherwise.
ErrorIsFinal(engine) ==
    engine = "ffmpeg" \/ ~AllowFallback(trueType, fileType)

FailureRule(engine) ==
    IF ErrorIsFinal(engine) THEN EntersError ELSE FallsBack

\* C11: a fatal error of the active adapter moves the job to Error exactly
\* when the engine is FFmpeg already or the media kind allows no fallback;
\* otherwise (image decoder or WebCodecs) the job does not enter Error and
\* falls back to FFmpeg.
C11_ErrorOnlyWithoutFallback ==
    [][ /\ \A w \in {"newWorker", "fallbackWorker", "ffmpegRef"} :
             (HandlesErrorMessage(w) \/ HandlesCrash(w)) => FailureRule(EngineOf(w))
        /\ \A r \in 1..MaxStarts :
             MainDecodeFails(r) => FailureRule("image-decoder") ]_vars


\* Nothing is left for the main thread to handle, and no worker is running.
Quiescent ==
    /\ MainThreadTurn
    /\ \A w \in WIDs : out[w] = <<>>
    /\ \A r \in DOMAIN main : main[r].pc = "done"

\* The fallback worker of the current job has crashed.
FallbackCrashed ==
    /\ wk["fallbackWorker"].pc = "failed"
    /\ wk["fallbackWorker"].job = jobs

CreatesWorker == \E w \in WIDs : wk'[w].pc = "boot" /\ wk'[w] # wk[w]

\* C12: once detected, the engine changes at most once, from a fast engine to
\* FFmpeg and never back; an error or a crash of the FFmpeg fallback worker
\* ends the job in Error, and no further worker is created for it.
C12_OneFallbackThenError ==
    /\ [][ /\ (engineStatus # "detecting" /\ selectedEngine' # selectedEngine) =>
                (selectedEngine \in {"image-decoder", "webcodecs"} /\ selectedEngine' = "ffmpeg")
           /\ HandlesErrorMessage("fallbackWorker") => (EntersError /\ ~CreatesWorker) ]_vars
    /\ []((FallbackCrashed /\ Quiescent) => engineStatus = "error")


\* What the orchestrator decides when worker w, in this state, posts ERROR.
ErrorMessageDecision(w) ==
    IF w = "newWorker" /\ FallbackOnErrorMessage(wk[w].eng) THEN "fallback" ELSE "error"

\* What this step has decided.
DecisionTaken ==
    IF FallsBack THEN "fallback" ELSE IF EntersError THEN "error" ELSE "none"

\* C13: an uncaught crash of a worker (worker.onerror) leads to the decision
\* an ERROR message of that worker leads to in the same state: both fall back
\* to FFmpeg or both end in Error, the no-fallback list for webp/gif/apng
\* included.
C13_CrashDecidesLikeErrorMessage ==
    [][ \A w \in {"newWorker", "fallbackWorker", "ffmpegRef"} :
            HandlesCrash(w) => DecisionTaken = ErrorMessageDecision(w) ]_vars


\* The workers whose onmessage handler appends to frames or parts: the
\* effect's worker, a fallback worker, startFfmpeg's worker.
FeedingWorkers == {"newWorker", "fallbackWorker", "ffmpegRef"}

LiveFeedingWorkers == {w \in FeedingWorkers : Alive(w)}

\* C14: at every moment (taken once the effects of the last render have
\* run) at most one non-terminated worker has a handler that can add frames
\* or parts to the job state; in particular the worker the engine-selection
\* effect re-creates after a fallback is never alive together with the
\* fallback worker.
C14_AtMostOneLiveWorker ==
    ~EffectPending => Cardinality(LiveFeedingWorkers) <= 1


\* ------------------------------------- claims on the job's frames and parts

\* C15: after startExtraction the frame set and the part set hold only items
\* produced by the run that this start began; nothing produced by an earlier
\* run (an aborted main-thread decode, an earlier worker) is added afterwards.
C15_OnlyItemsOfThisRun ==
    jobs >= 1 =>
        /\ \A k \in DOMAIN frames : frames[k].job = jobs
        /\ \A k \in DOMAIN parts : parts[k].job = jobs


\* C16: when cancelExtraction returns, every worker created for the job is
\* terminated, the abort signal of a running main-thread decode is set, and
\* the job holds no frames and no parts.
C16_CancelReleasesTheJob ==
    [][ CancelExtraction =>
          /\ \A w \in FeedingWorkers : (wk[w].job = jobs) => ~Alive(w)'
          /\ \A r \in DOMAIN main : main'[r].pc # "done" => main'[r].aborted
          /\ frames' = <<>>
          /\ parts' = <<>> ]_vars


\* ------------------------------------------ claims on failing detection

\* C17: when capability detection or engine selection throws, the
\* orchestrator selects the FFmpeg engine and moves from Detecting to Ready,
\* not to Error.
C17_DetectionFailureEndsReady ==
    [][ DetectAndSelectCatch =>
          (selectedEngine' = "ffmpeg" /\ engineStatus' = "ready") ]_vars


\* ------------------------------- more claims on the adapter worker

\* How many FRAME messages the adapter had posted before its k-th message.
FramesBefore(k) == Cardinality({j \in DOMAIN Posted : j < k /\ IsFrame(Posted[j])})

\* C18: with splitting enabled and framesPerPart = K, the part covering
\* frames [j*K, (j+1)*K - 1] is emitted as soon as its last frame has been
\* produced, before the adapter emits frame (j+1)*K: when a part is posted,
\* exactly the frames up to the part's endFrame have been posted.
C18_PartEmittedWhenWindowFull ==
    SplitOn =>
        \A k \in DOMAIN Posted :
            IsPart(Posted[k]) => FramesBefore(k) = Posted[k].hi + 1


\* C19: within one engine run the FRAME messages are posted in strictly
\* increasing index order, whatever order the directory listing returns the
\* frame files in.
C19_FramesInIncreasingOrder ==
    \A j \in DOMAIN PostedFrames : \A k \in DOMAIN PostedFrames :
        j < k => PostedFrames[j].idx < PostedFrames[k].idx


\* The adapter's extract handler has returned, uncancelled, without a single
\* frame.
ZeroFrameRun ==
    /\ wk["adapter"].extracted /\ wk["adapter"].hdone
    /\ Alive("adapter") /\ ~wk["adapter"].cancelled
    /\ wk["adapter"].pend = 0
    /\ PostedFrames = <<>>

\* C20: an extraction that yields zero frames ends with an ERROR message,
\* never with COMPLETE, with silence, or with a part.
C20_ZeroFramesIsAnError ==
    ZeroFrameRun =>
        /\ \E k \in DOMAIN Posted : Posted[k].type = "ERROR"
        /\ CompletePositions = {}
        /\ PostedParts = <<>>


\* C21: no job emits more than settings.maxFrames frames, whichever adapter
\* runs it: the number of FRAME messages and the totalFrames reported with
\* COMPLETE are at most maxFrames.
C21_AtMostMaxFrames ==
    /\ Len(PostedFrames) <= settings.maxFrames
    /\ \A k \in CompletePositions : Posted[k].tot <= settings.maxFrames


\* ----------------------------------------------- claims on a stalled decode

\* The image decode of the current job waits for a frame that never comes.
ImageDecodeStalled ==
    \E r \in DOMAIN main : main[r].pc = "stalled" /\ main[r].job = jobs

\* The orchestrator has switched the current job to the FFmpeg fallback.
SwitchedToFfmpeg ==
    /\ wk["fallbackWorker"].kind = "ffmpeg"
    /\ wk["fallbackWorker"].job = jobs

\* C22: an image decode that emits no frame any more (for over 8 seconds) is
\* reported as a fatal stall and the orchestrator switches the job to the
\* FFmpeg engine; the stalled job does not stay in Processing forever.
C22_StallLeadsToFallback ==
    ImageDecodeStalled ~> (SwitchedToFfmpeg \/ engineStatus # "processing")


\* ------------------------------------------ claims on the download toggle

\* C23: two runs of the same job that differ only in
\* settings.split.autoDownload (same file, same worker messages, same
\* clicks) hand the caller the same frames and the same sequence of parts;
\* the run with the toggle off triggers no browser download.
C23_AutoDownloadOnlyDownloads ==
    /\ byToggle[TRUE].frames = byToggle[FALSE].frames
    /\ byToggle[TRUE].parts = byToggle[FALSE].parts
    /\ byToggle[FALSE].downloads = 0
    /\ frames = byToggle[TRUE].frames
    /\ parts = byToggle[TRUE].parts

\* A part has reached the caller and was downloaded with the toggle on only.
C23_PartDeliveredBothWays ==
    /\ byToggle[FALSE].parts # <<>>
    /\ byToggle[TRUE].downloads >= 1
    /\ byToggle[FALSE].frames # <<>>

\* C24: in a run that completes, every PART_READY of the run is posted before
\* its COMPLETE, and COMPLETE.totalFrames is the number of FRAME messages of
\* the run (so no FRAME of the run follows its COMPLETE).
C24_CompleteClosesTheRun ==
    \A k \in CompletePositions :
        /\ \A j \in DOMAIN Posted : IsPart(Posted[j]) => j < k
        /\ Posted[k].tot = Len(PostedFrames)

\* C25: the orchestrator enters Processing only from Ready (never from
\* Detecting or Error).
C25_ProcessingOnlyFromReady ==
    [][(engineStatus # "processing" /\ engineStatus' = "processing")
          => engineStatus = "ready"]_vars

\* The main-thread decode r goes on to its next frame in this step.
StartsNextFrame(r) == main[r].pc = "yield" /\ main'[r].pc = "decoding"

\* The main-thread decode r returns its frame count in this step, which
\* startImageOnMain reports as completion.
ReturnsNormally(r) ==
    /\ main[r].pc = "yield" /\ main[r].i + 1 >= main[r].count
    /\ main'[r].pc = "done"

\* C26: an adapter whose cancellation signal has been raised decodes no
\* further frame after the one in progress and does not report completion.
C26_CancelStopsTheAdapter ==
    [][\A r \in DOMAIN main :
          main[r].aborted => ~StartsNextFrame(r) /\ ~ReturnsNormally(r)]_vars

\* Worker w posts an ERROR message in this step.
PostsError(w) ==
    \E k \in (Len(out[w]) + 1)..Len(out'[w]) : out'[w][k].type = "ERROR"

\* C27: an exception raised inside the decoder's output callback results in
\* a structured ERROR message; it is not swallowed with the frame silently
\* dropped.
C27_CallbackExceptionIsReported ==
    [][WcBlobThrows("adapter") => PostsError("adapter")]_vars

\* The VideoDecoder of worker w has been configured and is in use.
Configured(w) == wk[w].kind = "webcodecs" /\ wk[w].pc \in {"decoding", "parts"}

\* C28: the WebCodecs worker configures its decoder only after
\* isConfigSupported has confirmed support for the configuration.
C28_ConfigureOnlyIfSupported ==
    \A w \in WIDs : Configured(w) => wk[w].support = "supported"

\* The image-decoder worker has just probed a count of at least one frame.
ProbeFoundFrames ==
    /\ ~wk["adapter"].probed /\ wk'["adapter"].probed
    /\ wk'["adapter"].n >= 1

\* C29: when the decoder reports no frame count and the probe finds f >= 1
\* frames, the adapter goes on to extract from frame 0 with f as the count.
C29_ProbeThenExtractFromZero ==
    [][ProbeFoundFrames =>
          /\ wk'["adapter"].pc = "decode"
          /\ wk'["adapter"].i = 0]_vars

\* C30: in the FFmpeg worker at most one frame file has, at any time, been
\* read from the virtual filesystem and not yet deleted.
C30_AtMostOneFileReadAndKept ==
    \A w \in WIDs : ReadNotDeleted(w) <= 1

\* ------------------------------------- ffmpeg.worker.ts: sampling arguments

\* A frame rate num/den, as the number the worker formats into `fps=...`.
Rat(n, d) == [num |-> n, den |-> d]

RatLess(a, b) == a.num * b.den < b.num * a.den

RatEq(a, b) == a.num * b.den = b.num * a.den

\* Math.max(a, b), Math.min(a, b)
RatMax(a, b) == IF RatLess(a, b) THEN b ELSE a

RatMin(a, b) == IF RatLess(a, b) THEN a ELSE b

Max(a, b) == IF a < b THEN b ELSE a

\* mode 'fps': Math.max(0.1, Math.min(240, settings.fps ?? 30))
FpsModeRate(s) == RatMax(Rat(1, 10), RatMin(Rat(240, 1), Rat(OrElse(s.fps, 30), 1)))

\* mode 'nth': Math.max(0.1, (metadata?.fps ?? 30) / Math.max(1, settings.nth ?? 1))
NthModeRate(s) ==
    RatMax(Rat(1, 10), Rat(OrElse(s.sourceFps, 30), Max(1, OrElse(s.nth, 1))))

\* With(args, rate): '-vf', `fps=${fps}`, '-vsync', '0'
WithFpsFilter(rate) ==
    [built |-> TRUE, filter |-> TRUE, num |-> rate.num, den |-> rate.den, vsync |-> TRUE]

\* The sampling part of the argument list extractFrames builds: 'every'
\* pushes '-vsync', '0' alone, 'fps' and 'nth' push an fps filter, any other
\* mode pushes nothing.
SamplingArgs(s) ==
    CASE s.mode = "every" -> [NotBuilt EXCEPT !.built = TRUE, !.vsync = TRUE]
      [] s.mode = "fps"   -> WithFpsFilter(FpsModeRate(s))
      [] s.mode = "nth"   -> WithFpsFilter(NthModeRate(s))
      [] OTHER            -> [NotBuilt EXCEPT !.built = TRUE]

\* The sampling settings and source frame rates an EXTRACT request is
\* followed with.
SamplingModes == {"every", "fps", "nth", "range"}

SamplingCases ==
    [mode : SamplingModes, fps : {Absent, 1, 5, 30, 60}, nth : {Absent, 1, 2, 7},
     sourceFps : {Absent, 10, 24, 30, 60}]

\* extractFrames, from its entry to the argument list.
BuildArgs ==
    /\ ~cmds.built
    /\ cmds' = SamplingArgs(sampling)
    /\ UNCHANGED <<settings, wk, out, fileType, trueType, api, sampling, det,
                   panel, selResult, selectedEngine, engineStatus, jobVars>>

InitCmd ==
    /\ settings = WithMode([splitEnabled |-> FALSE, framesPerPart |-> 0], "auto")
    /\ CtlIdle
    /\ sampling \in SamplingCases /\ cmds = NotBuilt /\ det = <<>>
    /\ panel = PanelInitial
    /\ wk = [w \in WIDs |-> NoWorker]
    /\ out = [w \in WIDs |-> <<>>]

NextCmd == BuildArgs

SpecCmd == InitCmd /\ [][NextCmd]_vars

\* The rate the transcoder is given, when it is given one.
GivenRate == Rat(cmds.num, cmds.den)

\* C31: the sampling rate passed to the transcoder follows the sampling mode:
\* 'every' passes a capped default rate, 'fps' passes settings.fps as given,
\* 'nth' passes sourceFps / N, and the time-range mode passes no rate (every
\* frame within the window).
C31_RateFollowsMode ==
    cmds.built =>
        /\ sampling.mode = "every" =>
              cmds.filter /\ ~RatLess(Rat(OrElse(sampling.sourceFps, 30), 1), GivenRate)
        /\ (sampling.mode = "fps" /\ sampling.fps # Absent) =>
              cmds.filter /\ RatEq(GivenRate, Rat(sampling.fps, 1))
        /\ (sampling.mode = "nth" /\ sampling.nth # Absent /\ sampling.sourceFps # Absent) =>
              cmds.filter /\ RatEq(GivenRate, Rat(sampling.sourceFps, sampling.nth))
        /\ sampling.mode = "range" => ~cmds.filter

HandedOverBy(w) == wk[w].closedOver

\* The same call in startImageOnMain, after run r's decode has returned.
HandedOverByMain(r) == main[r].closedOver

\* C33: when a run completes with totalFrames = N, the list passed to
\* onFramesExtracted holds exactly the N frames accepted during that run.
C33_CompletionHandsOverTheRunsFrames ==
    [][/\ (FfmpegRefOnMessage /\ Head(out["ffmpegRef"]).type = "COMPLETE") =>
             /\ HandedOverBy("ffmpegRef") = frames
             /\ Len(HandedOverBy("ffmpegRef")) = Head(out["ffmpegRef"]).tot
       /\ \A r \in DOMAIN main :
             (ReturnsNormally(r) /\ ~main[r].aborted) =>
                 /\ HandedOverByMain(r) = frames
                 /\ Len(HandedOverByMain(r)) = main[r].count]_vars

\* ------------------------- ProcessingController: detection and a new file

\* A detectAndSelect call just made for a file: it closes over the file and
\* metadata of the render its effect ran in, and waits in
\* `await detectProcessingCapabilities(...)`.
Detecting(tt, ft) == [tt |-> tt, ft |-> ft, res |-> "pending"]

\* The first effect running for a file with these types: detectAndSelect is
\* called, setEngineStatus('detecting') runs before its first await.  The
\* effect returns no cleanup: an earlier call goes on.
FileSupplied(tt, ft) ==
    /\ trueType' = tt /\ fileType' = ft
    /\ det' = Append(det, Detecting(tt, ft))
    /\ engineStatus' = "detecting"

\* The user supplies another file while the page is open.
SupplyFile ==
    /\ Len(det) < MaxFiles
    /\ \E fc \in FileCases : FileSupplied(fc[1], fc[2])
    /\ UNCHANGED <<settings, wk, out, api, sampling, cmds, panel, selResult,
                   selectedEngine, jobVars>>

\* The k-th detectAndSelect call gets past its awaits: setSelectedEngine with
\* the engine for its own file, setEngineStatus('ready').
DetectionDone(k) ==
    /\ k \in DOMAIN det /\ det[k].res = "pending"
    /\ selectedEngine' = DetectedEngine(det[k].tt, det[k].ft, settings.processingMode, api)
    /\ engineStatus' = "ready"
    /\ det' = [det EXCEPT ![k].res = "ready"]
    /\ UNCHANGED <<settings, wk, out, fileType, trueType, api, sampling, cmds,
                   panel, selResult, jobVars>>

\* The k-th call ends in its catch clause.
DetectionThrows(k) ==
    /\ k \in DOMAIN det /\ det[k].res = "pending"
    /\ selectedEngine' = "ffmpeg"
    /\ engineStatus' = "error"
    /\ det' = [det EXCEPT ![k].res = "error"]
    /\ UNCHANGED <<settings, wk, out, fileType, trueType, api, sampling, cmds,
                   panel, selResult, jobVars>>

InitRace ==
    /\ settings \in {WithMode([splitEnabled |-> FALSE, framesPerPart |-> 0], m) :
                       m \in ProcessingModes}
    /\ api \in Apis
    /\ selResult = "pending"
    /\ Mounted
    /\ sampling = DefaultSampling /\ cmds = NotBuilt /\ panel = PanelInitial
    /\ \E fc \in FileCases :
         /\ trueType = fc[1] /\ fileType = fc[2]
         /\ det = <<Detecting(fc[1], fc[2])>>
    /\ wk = [w \in WIDs |-> NoWorker]
    /\ out = [w \in WIDs |-> <<>>]

NextRace ==
    \/ SupplyFile
    \/ \E k \in 1..MaxFiles : DetectionDone(k)
    \/ \E k \in 1..MaxFiles : DetectionThrows(k)

SpecRace == InitRace /\ [][NextRace]_vars

\* Every detection started so far has finished.
DetectionsFinished == \A k \in DOMAIN det : det[k].res # "pending"

\* The engine and phase the detection of the file at hand has computed.
EngineForLatest ==
    LET d == det[Len(det)] IN
    IF d.res = "ready"
    THEN DetectedEngine(d.tt, d.ft, settings.processingMode, api)
    ELSE "ffmpeg"

\* C35: when a file is supplied while the detection for an earlier file is
\* pending, then once both detections have finished the selected engine and
\* the phase are those computed for the file supplied last, in whichever
\* order the two finish.
C35_LatestFileDecides ==
    (Len(det) >= 2 /\ DetectionsFinished) =>
        /\ selectedEngine = EngineForLatest
        /\ engineStatus = det[Len(det)].res

\* The orchestrator posts EXTRACT to worker w in this step.
PostsExtract(w) == wk[w].inmsg # "EXTRACT" /\ wk'[w].inmsg = "EXTRACT"

\* Worker w has been sent an EXTRACT since it was created.
WasSentExtract(w) == wk[w].inmsg = "EXTRACT" \/ wk[w].task = "EXTRACT"

\* C36: the orchestrator posts EXTRACT only to a live worker that has itself
\* reported readiness, only for a started job, and at most once per started
\* job.
C36_ExtractOncePerJobWhenReady ==
    [][\A w \in WIDs :
          PostsExtract(w) =>
              /\ wk[w].ready /\ Alive(w)
              /\ wk[w].job >= 1
              /\ \A v \in WIDs \ {w} : wk[v].job = wk[w].job => ~WasSentExtract(v)]_vars

\* ------------------- ExtractionEngine with its worker created on mount

\* What no step of this component changes.
besidePanel ==
    <<settings, fileType, trueType, api, sampling, cmds, det, selResult,
      selectedEngine, engineStatus, jobVars>>

\* worker.onmessage of the mount effect.  ALIVE: setWorkerAlive(true), post
\* INIT.  FFMPEG_READY / READY: setFfmpegReady(true).  PROGRESS: setProgress.
\* FRAME: setFrames.  PART_READY: setGeneratedParts (and the download).
\* COMPLETE: setIsExtracting(false), status 'complete'.  ERROR:
\* setIsExtracting(false), status 'error'.
PanelOnMessage ==
    LET w == "mountWorker"
        m == Head(out[w])
    IN
    /\ out[w] # <<>> /\ m.type # "error"
    /\ out' = [out EXCEPT ![w] = Tail(@)]
    /\ wk' = IF m.type = "ALIVE" THEN [wk EXCEPT ![w].inmsg = "INIT"] ELSE wk
    /\ panel' =
         CASE m.type = "ALIVE" -> [panel EXCEPT !.workerAlive = TRUE]
           [] m.type \in {"FFMPEG_READY", "READY"} -> [panel EXCEPT !.ffmpegReady = TRUE]
           [] m.type = "PROGRESS" -> [panel EXCEPT !.status = "processing"]
           [] m.type = "FRAME" -> [panel EXCEPT !.frames = @ + 1]
           [] m.type = "PART_READY" -> [panel EXCEPT !.parts = @ + 1]
           [] m.type = "COMPLETE" ->
                [panel EXCEPT !.isExtracting = FALSE, !.status = "complete"]
           [] m.type = "ERROR" ->
                [panel EXCEPT !.isExtracting = FALSE, !.status = "error"]
           [] OTHER -> panel
    /\ UNCHANGED besidePanel

\* worker.onerror of the mount effect.
PanelOnError ==
    LET w == "mountWorker" IN
    /\ out[w] # <<>> /\ Head(out[w]).type = "error"
    /\ out' = [out EXCEPT ![w] = Tail(@)]
    /\ panel' = [panel EXCEPT !.workerAlive = FALSE, !.ffmpegReady = FALSE,
                              !.isExtracting = FALSE, !.status = "error"]
    /\ UNCHANGED <<wk, besidePanel>>

\* The button, shown as Extract while isExtracting is false and disabled
\* while ffmpegReady is false: startExtraction.  It returns at once without
\* workerRef.current or without ffmpegReady; otherwise it resets frames and
\* parts and posts EXTRACT to workerRef.current.
PanelStartExtraction ==
    LET w == "mountWorker" IN
    /\ ~panel.isExtracting /\ panel.ffmpegReady
    /\ panel.starts < MaxPanelStarts
    /\ wk[w].inmsg = "none"
    /\ IF panel.workerRef = "null"
       THEN /\ panel' = [panel EXCEPT !.starts = @ + 1]
            /\ UNCHANGED wk
       ELSE /\ panel' = [panel EXCEPT !.isExtracting = TRUE, !.frames = 0,
                                      !.parts = 0, !.status = "processing",
                                      !.starts = @ + 1]
            /\ wk' = [wk EXCEPT ![w].inmsg = "EXTRACT"]
    /\ UNCHANGED <<out, besidePanel>>

\* The same button while isExtracting: cancelExtraction.  CANCEL is posted,
\* the worker is terminated, workerRef.current = null, and isExtracting,
\* workerAlive and ffmpegReady are set to false.  No worker is made.
PanelCancelExtraction ==
    LET w == "mountWorker" IN
    /\ panel.isExtracting /\ panel.ffmpegReady
    /\ IF panel.workerRef = "null"
       THEN UNCHANGED <<wk, out>>
       ELSE /\ wk' = Terminated(wk, w)
            /\ out' = Cleared(out, w)
    /\ panel' = [panel EXCEPT !.workerRef = "null", !.isExtracting = FALSE,
                              !.workerAlive = FALSE, !.ffmpegReady = FALSE,
                              !.status = "cancelled"]
    /\ UNCHANGED besidePanel

\* The component mounted with file and metadata: the mount effect has made
\* the worker and stored it in workerRef.
InitPanel ==
    /\ settings \in {WithMode(sp, "auto") : sp \in SplitCases}
    /\ CtlIdle
    /\ sampling = DefaultSampling /\ cmds = NotBuilt /\ det = <<>>
    /\ panel = [PanelInitial EXCEPT !.workerRef = "mountWorker"]
    /\ wk = [w \in WIDs |-> IF w = "mountWorker" THEN NewWorker("ffmpeg") ELSE NoWorker]
    /\ out = [w \in WIDs |-> <<>>]

\* The worker's own steps.
PanelWorkerStep ==
    \E w \in {"mountWorker"} :
        \/ WorkerBoot(w)
        \/ WorkerFail(w)
        \/ FfOnMessage(w)
        \/ FfInit(w)
        \/ FfExec(w)
        \/ FfReadFrame(w)
        \/ FfPostPart(w)
        \/ FfCleanup(w)

NextPanel ==
    \/ PanelWorkerStep
    \/ PanelOnMessage
    \/ PanelOnError
    \/ PanelStartExtraction
    \/ PanelCancelExtraction

SpecPanel == InitPanel /\ [][NextPanel]_vars

\* The worker and the handlers run when they can, and the user presses
\* Extract whenever the button keeps offering it.
SpecPanelFair ==
    SpecPanel /\ WF_vars(PanelWorkerStep) /\ WF_vars(PanelOnMessage)
              /\ WF_vars(PanelOnError) /\ SF_vars(PanelStartExtraction)

\* An extraction of the component has been cancelled and none started since.
PanelCancelled == panel.status = "cancelled"

\* EXTRACT has been sent to the component's live, ready worker.
PanelExtractSent ==
    /\ Alive("mountWorker") /\ wk["mountWorker"].ready
    /\ WasSentExtract("mountWorker")

\* C37: after an extraction has been cancelled, a new extraction of the same
\* file can be started: when the user goes on asking for it, EXTRACT is sent
\* to a live, ready worker.
C37_RestartAfterCancel == PanelCancelled ~> PanelExtractSent

====
